---- MODULE Spec2Model ----
(***************************************************************************)
(* Model of process-products.py: the record transformer (format_timestamp, *)
(* process_products), its two serialisers (save_to_excel, save_to_json)    *)
(* and the main script that runs them in sequence.                         *)
(*                                                                         *)
(* Text is modelled as a sequence of one-character strings, so that the    *)
(* JSON writer and reader work on characters.  JSON values are tagged      *)
(* records.  An integer n is kept as the pair (q, r) with n = 1000*q + r   *)
(* and 0 <= r < 1000, which keeps a millisecond timestamp such as          *)
(* 1700000000000 within the range of 32-bit integers; integers of         *)
(* 16 digits or more are kept as their digit string (bigint).              *)
(***************************************************************************)
EXTENDS Integers, Sequences, FiniteSets, TLC

\* ------------------------------------------------------------------ bounds
\* Longest `rows` array the model enumerates.
MaxRows == 2

\* ------------------------------------------------------------- JSON values
Null == [t |-> "null"]

StrV(cs) == [t |-> "str", s |-> cs]

IntV(q, r) == [t |-> "int", q |-> q, r |-> r]

BigIntV(ds) == [t |-> "bigint", ds |-> ds]

BoolV(b) == [t |-> "bool", b |-> b]

EmptyArr == [t |-> "arr", items |-> <<>>]

\* Python truthiness of a JSON value: `if timestamp_ms:`.
Truthy(v) ==
    CASE v.t = "null" -> FALSE
      [] v.t = "str" -> Len(v.s) > 0
      [] v.t = "int" -> ~(v.q = 0 /\ v.r = 0)
      [] v.t = "bigint" -> TRUE
      [] v.t = "bool" -> v.b
      [] v.t = "arr" -> Len(v.items) > 0

\* Outcome of a Python call: a returned value or a raised exception.
Ok(v) == [ok |-> TRUE, val |-> v]

Raise(e) == [ok |-> FALSE, err |-> e]

\* ------------------------------------------------------- format_timestamp
DigitChar == <<"0", "1", "2", "3", "4", "5", "6", "7", "8", "9">>

\* n >= 0 written with at least `width` decimal digits, zero padded.
RECURSIVE Pad(_, _)
Pad(n, width) ==
    IF width <= 1 /\ n < 10
    THEN <<DigitChar[n + 1]>>
    ELSE Append(Pad(n \div 10, width - 1), DigitChar[(n % 10) + 1])

\* Gregorian date of the day `days` after 1970-01-01.
CivilFromDays(days) ==
    LET z == days + 719468
        era == z \div 146097
        doe == z - era * 146097
        yoe == (doe - doe \div 1460 + doe \div 36524 - doe \div 146096) \div 365
        doy == doe - (365 * yoe + yoe \div 4 - yoe \div 100)
        mp == (5 * doy + 2) \div 153
        d == doy - (153 * mp + 2) \div 5 + 1
        m == IF mp < 10 THEN mp + 3 ELSE mp - 9
        y == yoe + era * 400 + (IF m <= 2 THEN 1 ELSE 0)
    IN [y |-> y, m |-> m, d |-> d]

\* datetime.fromtimestamp(sec) in the zone `tzo` seconds east of UTC,
\* then strftime('%Y-%m-%d %H:%M:%S').
StrFTime(sec, tzo) ==
    LET loc == sec + tzo
        days == loc \div 86400
        sod == loc % 86400
        c == CivilFromDays(days)
    IN Pad(c.y, 4) \o <<"-">> \o Pad(c.m, 2) \o <<"-">> \o Pad(c.d, 2)
       \o <<" ">> \o Pad(sod \div 3600, 2) \o <<":">>
       \o Pad((sod % 3600) \div 60, 2) \o <<":">> \o Pad(sod % 60, 2)

\* Variant: the test is `is not None` instead of truthiness.
format_timestamp_notNone(timestamp_ms, tzo) ==
    IF timestamp_ms.t # "null"
    THEN CASE timestamp_ms.t = "int" -> Ok(StrV(StrFTime(timestamp_ms.q, tzo)))
           [] timestamp_ms.t = "bool" -> Ok(StrV(StrFTime(0, tzo)))
           [] timestamp_ms.t = "bigint" -> Raise("ValueError")
           [] OTHER -> Raise("TypeError")
    ELSE Ok(StrV(<<>>))

format_timestamp(timestamp_ms, tzo) ==
    IF Truthy(timestamp_ms)
    THEN CASE timestamp_ms.t = "int" -> Ok(StrV(StrFTime(timestamp_ms.q, tzo)))
           [] timestamp_ms.t = "bool" -> Ok(StrV(StrFTime(0, tzo)))
           [] timestamp_ms.t = "bigint" -> Raise("ValueError")
           [] OTHER -> Raise("TypeError")
    ELSE Ok(StrV(<<>>))

\* ------------------------------------------------------- process_products
\* dict.get(key, default)
Get(d, key, default) == IF key \in DOMAIN d THEN d[key] ELSE default

\* The keys of a processed product (lines 26-32), as text.
K_productName == <<"p", "r", "o", "d", "u", "c", "t", "N", "a", "m", "e">>

K_productKey == <<"p", "r", "o", "d", "u", "c", "t", "K", "e", "y">>

K_productId == <<"p", "r", "o", "d", "u", "c", "t", "I", "d">>

K_productVendorId == <<"p", "r", "o", "d", "u", "c", "t", "V", "e", "n", "d", "o", "r", "I", "d">>

K_categoryName == <<"c", "a", "t", "e", "g", "o", "r", "y", "N", "a", "m", "e">>

K_categoryValue == <<"c", "a", "t", "e", "g", "o", "r", "y", "V", "a", "l", "u", "e">>

K_createdTime == <<"c", "r", "e", "a", "t", "e", "d", "T", "i", "m", "e">>

\* Variant: productId is read from the key of the same name.
ProcessedProduct_sameKey(product, created) ==
    << <<K_productName, Get(product, "productName", StrV(<<>>))>>,
       <<K_productKey, Get(product, "productKey", StrV(<<>>))>>,
       <<K_productId, Get(product, "productId", StrV(<<>>))>>,
       <<K_productVendorId, Get(product, "vendorId", StrV(<<>>))>>,
       <<K_categoryName, Get(product, "categoryName", StrV(<<>>))>>,
       <<K_categoryValue, Get(product, "itemValue", StrV(<<>>))>>,
       <<K_createdTime, created>> >>

\* The dict literal of lines 25-33, as the ordered list of its items
\* <<key, value>>, given the already formatted createdTime.
ProcessedProduct(product, created) ==
    << <<K_productName, Get(product, "productName", StrV(<<>>))>>,
       <<K_productKey, Get(product, "productKey", StrV(<<>>))>>,
       <<K_productId, Get(product, "id", StrV(<<>>))>>,
       <<K_productVendorId, Get(product, "vendorId", StrV(<<>>))>>,
       <<K_categoryName, Get(product, "categoryName", StrV(<<>>))>>,
       <<K_categoryValue, Get(product, "itemValue", StrV(<<>>))>>,
       <<K_createdTime, created>> >>

RECURSIVE ProcessLoop(_, _, _, _)

\* Variant: a record without a creation time is skipped.
RECURSIVE ProcessLoop_skip(_, _, _, _)
ProcessLoop_skip(products, i, acc, tzo) ==
    IF i > Len(products)
    THEN Ok(acc)
    ELSE LET ts == format_timestamp(Get(products[i], "tsCreateTime", Null), tzo)
         IN IF ts.ok
            THEN ProcessLoop_skip(products, i + 1,
                     IF ts.val = StrV(<<>>)
                     THEN acc
                     ELSE Append(acc, ProcessedProduct(products[i], ts.val)),
                     tzo)
            ELSE ts

\* The loop of lines 23-36 over products[i..], with `acc` the records
\* appended so far; the first exception ends the call.
ProcessLoop(products, i, acc, tzo) ==
    IF i > Len(products)
    THEN Ok(acc)
    ELSE LET ts == format_timestamp(Get(products[i], "tsCreateTime", Null), tzo)
         IN IF ts.ok
            THEN ProcessLoop(products, i + 1,
                             Append(acc, ProcessedProduct(products[i], ts.val)), tzo)
            ELSE ts

\* Variant: data['rows'] instead of data.get('rows', []).
process_products_subscript(file, tzo) ==
    CASE file.state = "missing" -> Raise("FileNotFoundError")
      [] file.state = "invalid" -> Raise("JSONDecodeError")
      [] OTHER ->
           LET data == file.doc
           IN IF data.t # "obj"
              THEN Raise("TypeError")
              ELSE IF ~data.hasRows
                   THEN Raise("KeyError")
                   ELSE IF data.rows.t # "arr"
                        THEN Raise("TypeError")
                        ELSE ProcessLoop(data.rows.items, 1, <<>>, tzo)

\* Variant: a failed read or parse is swallowed and gives no products.
process_products_swallow(file, tzo) ==
    CASE file.state \in {"missing", "invalid"} -> Ok(<<>>)
      [] OTHER ->
           LET data == file.doc
           IN IF data.t # "obj"
              THEN Raise("AttributeError")
              ELSE LET products == IF data.hasRows THEN data.rows ELSE EmptyArr
                   IN IF products.t # "arr"
                      THEN Raise("TypeError")
                      ELSE ProcessLoop(products.items, 1, <<>>, tzo)

\* `file` is the input file: missing, not JSON, or holding a parsed document.
process_products(file, tzo) ==
    CASE file.state = "missing" -> Raise("FileNotFoundError")
      [] file.state = "invalid" -> Raise("JSONDecodeError")
      [] OTHER ->
           LET data == file.doc
           IN IF data.t # "obj"
              THEN Raise("AttributeError")
              ELSE LET products == IF data.hasRows THEN data.rows ELSE EmptyArr
                   IN IF products.t # "arr"
                      THEN Raise("TypeError")
                      ELSE ProcessLoop(products.items, 1, <<>>, tzo)

\* ------------------------------------------------------------ save_to_json
\* Variant: strings are written between quotes as they are.
Escape_raw(cs) == cs

\* json.dump(products, file, indent=2, ensure_ascii=False): the text written.
RECURSIVE Escape(_)
Escape(cs) ==
    IF cs = <<>>
    THEN <<>>
    ELSE LET c == Head(cs)
         IN (CASE c = "\"" -> <<"\\", "\"">>
               [] c = "\\" -> <<"\\", "\\">>
               [] c = "\n" -> <<"\\", "n">>
               [] OTHER -> <<c>>) \o Escape(Tail(cs))

IntDigits(v) == IF v.q = 0 THEN Pad(v.r, 1) ELSE Pad(v.q, 1) \o Pad(v.r, 3)

DumpValue(v) ==
    CASE v.t = "null" -> <<"n", "u", "l", "l">>
      [] v.t = "str" -> <<"\"">> \o Escape(v.s) \o <<"\"">>
      [] v.t = "int" -> IntDigits(v)
      [] v.t = "bigint" -> v.ds
      [] v.t = "bool" -> IF v.b THEN <<"t", "r", "u", "e">>
                                ELSE <<"f", "a", "l", "s", "e">>
      [] v.t = "arr" -> <<"[", "]">>

\* The items of a dict from the i-th on, one per line at indent 4.
RECURSIVE DumpItems(_, _)
DumpItems(d, i) ==
    IF i > Len(d)
    THEN <<>>
    ELSE <<" ", " ", " ", " ", "\"">> \o Escape(d[i][1]) \o <<"\"", ":", " ">>
         \o DumpValue(d[i][2])
         \o (IF i < Len(d) THEN <<",">> ELSE <<>>) \o <<"\n">>
         \o DumpItems(d, i + 1)

DumpDict(d) ==
    IF d = <<>>
    THEN <<"{", "}">>
    ELSE <<"{", "\n">> \o DumpItems(d, 1) \o <<" ", " ", "}">>

\* The elements of the list from the i-th on, one per block at indent 2.
RECURSIVE DumpElements(_, _)
DumpElements(products, i) ==
    IF i > Len(products)
    THEN <<>>
    ELSE <<" ", " ">> \o DumpDict(products[i])
         \o (IF i < Len(products) THEN <<",">> ELSE <<>>) \o <<"\n">>
         \o DumpElements(products, i + 1)

json_dump(products) ==
    IF products = <<>>
    THEN <<"[", "]">>
    ELSE <<"[", "\n">> \o DumpElements(products, 1) \o <<"]">>

\* --------------------------------------------------------------- json.load
\* The reader that parses the text back.  A result is [ok, v, p]: the value
\* read and the position after it, or [ok |-> FALSE] on malformed text.
Fail == [ok |-> FALSE]

Got(v, p) == [ok |-> TRUE, v |-> v, p |-> p]

At(s, p) == IF p >= 1 /\ p <= Len(s) THEN s[p] ELSE "EOF"

RECURSIVE SkipWs(_, _)
SkipWs(s, p) == IF At(s, p) \in {" ", "\n"} THEN SkipWs(s, p + 1) ELSE p

IsDigit(c) == \E i \in 1..10 : DigitChar[i] = c

DigitVal(c) == (CHOOSE i \in 1..10 : DigitChar[i] = c) - 1

RECURSIVE DigitsVal(_)
DigitsVal(ds) ==
    IF ds = <<>> THEN 0
    ELSE 10 * DigitsVal(SubSeq(ds, 1, Len(ds) - 1)) + DigitVal(ds[Len(ds)])

NumFromDigits(ds) ==
    IF Len(ds) >= 16
    THEN BigIntV(ds)
    ELSE IF Len(ds) <= 3
         THEN IntV(0, DigitsVal(ds))
         ELSE IntV(DigitsVal(SubSeq(ds, 1, Len(ds) - 3)),
                   DigitsVal(SubSeq(ds, Len(ds) - 2, Len(ds))))

\* p is the position after the opening quote.
RECURSIVE ScanString(_, _, _)
ScanString(s, p, acc) ==
    LET c == At(s, p)
    IN CASE c = "EOF" -> Fail
         [] c = "\"" -> Got(acc, p + 1)
         [] c = "\\" ->
              LET e == At(s, p + 1)
              IN IF e \in {"\"", "\\"}
                 THEN ScanString(s, p + 2, Append(acc, e))
                 ELSE IF e = "n"
                      THEN ScanString(s, p + 2, Append(acc, "\n"))
                      ELSE Fail
         [] OTHER -> ScanString(s, p + 1, Append(acc, c))

RECURSIVE ScanDigits(_, _, _)
ScanDigits(s, p, acc) ==
    IF IsDigit(At(s, p))
    THEN ScanDigits(s, p + 1, Append(acc, s[p]))
    ELSE Got(acc, p)

Literal(s, p, word) ==
    /\ p + Len(word) - 1 <= Len(s)
    /\ SubSeq(s, p, p + Len(word) - 1) = word

ParseScalar(s, p) ==
    LET c == At(s, p)
    IN CASE c = "\"" ->
              LET r == ScanString(s, p + 1, <<>>)
              IN IF r.ok THEN Got(StrV(r.v), r.p) ELSE Fail
         [] IsDigit(c) ->
              LET r == ScanDigits(s, p, <<>>)
              IN Got(NumFromDigits(r.v), r.p)
         [] Literal(s, p, <<"n", "u", "l", "l">>) -> Got(Null, p + 4)
         [] Literal(s, p, <<"t", "r", "u", "e">>) -> Got(BoolV(TRUE), p + 4)
         [] Literal(s, p, <<"f", "a", "l", "s", "e">>) -> Got(BoolV(FALSE), p + 5)
         [] Literal(s, p, <<"[", "]">>) -> Got(EmptyArr, p + 2)
         [] OTHER -> Fail

\* The members of an object from position p (the start of a key) on.
RECURSIVE ParseMembers(_, _, _)
ParseMembers(s, p, acc) ==
    IF At(s, p) # "\""
    THEN Fail
    ELSE LET k == ScanString(s, p + 1, <<>>)
         IN IF ~k.ok \/ At(s, SkipWs(s, k.p)) # ":"
            THEN Fail
            ELSE LET v == ParseScalar(s, SkipWs(s, SkipWs(s, k.p) + 1))
                 IN IF ~v.ok
                    THEN Fail
                    ELSE LET q == SkipWs(s, v.p)
                             items == Append(acc, <<k.v, v.v>>)
                         IN CASE At(s, q) = "," ->
                                   ParseMembers(s, SkipWs(s, q + 1), items)
                              [] At(s, q) = "}" -> Got(items, q + 1)
                              [] OTHER -> Fail

ParseObject(s, p) ==
    IF At(s, p) # "{"
    THEN Fail
    ELSE IF At(s, SkipWs(s, p + 1)) = "}"
         THEN Got(<<>>, SkipWs(s, p + 1) + 1)
         ELSE ParseMembers(s, SkipWs(s, p + 1), <<>>)

\* The elements of the top-level array from position p on.
RECURSIVE ParseElements(_, _, _)
ParseElements(s, p, acc) ==
    LET o == ParseObject(s, p)
    IN IF ~o.ok
       THEN Fail
       ELSE LET q == SkipWs(s, o.p)
                items == Append(acc, o.v)
            IN CASE At(s, q) = "," -> ParseElements(s, SkipWs(s, q + 1), items)
                 [] At(s, q) = "]" -> Got(items, q + 1)
                 [] OTHER -> Fail

\* json.load of a text holding an array of objects: Ok(list) or a raise.
json_load(s) ==
    LET p == SkipWs(s, 1)
        r == IF At(s, p) # "["
             THEN Fail
             ELSE IF At(s, SkipWs(s, p + 1)) = "]"
                  THEN Got(<<>>, SkipWs(s, p + 1) + 1)
                  ELSE ParseElements(s, SkipWs(s, p + 1), <<>>)
    IN IF r.ok /\ SkipWs(s, r.p) = Len(s) + 1
       THEN Ok(r.v)
       ELSE Raise("JSONDecodeError")

\* ----------------------------------------------------------- save_to_excel
\* pd.DataFrame(products).columns: the keys in order of first appearance;
\* no columns at all for an empty list.
RECURSIVE KeysFrom(_, _, _)
KeysFrom(d, i, cols) ==
    IF i > Len(d)
    THEN cols
    ELSE KeysFrom(d, i + 1,
                  IF \E j \in 1..Len(cols) : cols[j] = d[i][1]
                  THEN cols
                  ELSE Append(cols, d[i][1]))

RECURSIVE Columns(_, _, _)
Columns(products, i, cols) ==
    IF i > Len(products)
    THEN cols
    ELSE Columns(products, i + 1, KeysFrom(products[i], 1, cols))

Blank == [t |-> "blank"]

\* The cell of record d under column c: missing and None are written blank.
Cell(d, c) ==
    IF \E j \in 1..Len(d) : d[j][1] = c
    THEN LET v == d[CHOOSE j \in 1..Len(d) : d[j][1] = c][2]
         IN IF v.t = "null" THEN Blank ELSE v
    ELSE Blank

\* Variant: to_excel(..., header=False).
ToExcel_noHeader(products) ==
    LET cols == Columns(products, 1, <<>>)
    IN [header |-> <<>>,
        rows |-> [i \in 1..Len(products) |->
                    [j \in 1..Len(cols) |-> Cell(products[i], cols[j])]]]

\* df.to_excel(output_path, index=False): the header row and the data rows.
ToExcel(products) ==
    LET cols == Columns(products, 1, <<>>)
    IN [header |-> cols,
        rows |-> [i \in 1..Len(products) |->
                    [j \in 1..Len(cols) |-> Cell(products[i], cols[j])]]]

\* ------------------------------------------------------------------ inputs
\* Source records: mappings from field names to JSON values, any key absent.
R_None == [k \in {} |-> Null]

R_Widget ==
    [productName |-> StrV(<<"W", "i", "d", "g", "e", "t">>),
     id |-> IntV(0, 7),
     tsCreateTime |-> IntV(1700000000, 0)]

R_Full ==
    [productName |-> StrV(<<"a", "\"", "b">>),
     productKey |-> StrV(<<"p", "\\", "1">>),
     id |-> IntV(1, 234),
     vendorId |-> IntV(0, 0),
     categoryName |-> StrV(<<"c", "\n", "d">>),
     itemValue |-> StrV(<<"7">>),
     tsCreateTime |-> IntV(951782400, 999),
     remark |-> StrV(<<"x">>)]

R_Nulls == [productName |-> Null, id |-> BoolV(TRUE), tsCreateTime |-> Null]

R_TsZero == [productKey |-> StrV(<<"k">>), tsCreateTime |-> IntV(0, 0)]


R_TsText == [id |-> IntV(0, 3), tsCreateTime |-> StrV(<<"a", "b", "c">>)]

R_TsEmptyText == [id |-> IntV(0, 4), tsCreateTime |-> StrV(<<>>)]

R_TsFalse == [id |-> IntV(0, 5), tsCreateTime |-> BoolV(FALSE)]

R_TsTrue == [id |-> IntV(0, 6), tsCreateTime |-> BoolV(TRUE)]

R_TsEmptyArr == [vendorId |-> StrV(<<"v">>), tsCreateTime |-> EmptyArr]

Digits17 ==
    <<"1", "0", "0", "0", "0", "0", "0", "0", "0", "0", "0", "0", "0", "0",
      "0", "0", "0">>

R_TsBig == [id |-> IntV(0, 8), tsCreateTime |-> BigIntV(Digits17)]

R_TsOne ==
    [id |-> BigIntV(Digits17), itemValue |-> IntV(0, 40),
     tsCreateTime |-> IntV(0, 1)]

SourceRecords ==
    {R_None, R_Widget, R_Full, R_Nulls, R_TsZero, R_TsOne, R_TsText,
     R_TsEmptyText, R_TsFalse, R_TsTrue, R_TsEmptyArr, R_TsBig}

Rows == UNION {[1..n -> SourceRecords] : n \in 0..MaxRows}

\* Valid JSON documents: an object whose `rows` is a list of records, is
\* null, or is missing; or a top-level array.
Documents ==
    {[t |-> "obj", hasRows |-> TRUE, rows |-> [t |-> "arr", items |-> r]] :
        r \in Rows}
    \cup {[t |-> "obj", hasRows |-> FALSE, rows |-> Null],
          [t |-> "obj", hasRows |-> TRUE, rows |-> Null],
          EmptyArr}

InputFiles ==
    {[state |-> "missing"], [state |-> "invalid"]}
    \cup {[state |-> "valid", doc |-> d] : d \in Documents}

\* Local time zones, in seconds east of UTC.
TzOffsets == {0, 19800}

\* What `pip install pandas openpyxl` can do: exit non-zero, install the
\* package, or exit zero with openpyxl still not importable by this process.
PipOutcomes == {"failed", "installed", "notImportable"}

\* ------------------------------------------------------------------- state
VARIABLES
    pc,             \* the statement of the script about to run
    pandas,         \* pandas is importable
    openpyxl,       \* openpyxl is importable
    tz,             \* the local zone, seconds east of UTC
    input,          \* the input file
    result,         \* what the call of process_products did
    products,       \* the variable `products` of the main script
    stdout,         \* the lines printed so far
    excelFile,      \* products.xlsx: Absent or [header, rows]
    jsonFile,       \* products_formatted.json: Absent or its text
    excelAttempts,  \* calls of save_to_excel so far
    provisionCount, \* runs of pip install so far
    firstAttempt,   \* how the first save_to_excel ended
    error,          \* the exception that ended the run, "none" if none
    exitCode        \* -1 while running, then the exit status

vars ==
    <<pc, pandas, openpyxl, tz, input, result, products, stdout, excelFile, jsonFile,
      excelAttempts, provisionCount, firstAttempt, error, exitCode>>

Absent == [t |-> "absent"]

NotCalled == [ok |-> FALSE, err |-> "not called"]

Init ==
    /\ pc = "import"
    /\ pandas \in BOOLEAN
    /\ openpyxl \in BOOLEAN
    /\ tz \in TzOffsets
    /\ input \in InputFiles
    /\ result = NotCalled
    /\ products = <<>>
    /\ stdout = <<>>
    /\ excelFile = Absent
    /\ jsonFile = Absent
    /\ excelAttempts = 0
    /\ provisionCount = 0
    /\ firstAttempt = "none"
    /\ error = "none"
    /\ exitCode = -1

\* An uncaught exception: the traceback is printed and the exit status is 1.
Abort(e) ==
    /\ pc' = "exited"
    /\ error' = e
    /\ exitCode' = 1

\* Lines 2-4: the imports at the top of the module.
ImportModules ==
    /\ pc = "import"
    /\ IF pandas
       THEN pc' = "process" /\ UNCHANGED <<error, exitCode>>
       ELSE Abort("ImportError")
    /\ UNCHANGED <<result, pandas, openpyxl, tz, input, products, stdout, excelFile,
                   jsonFile, excelAttempts, provisionCount, firstAttempt>>

\* Line 55: products = process_products(input_file).
ProcessProducts ==
    /\ pc = "process"
    /\ result' = process_products(input, tz)
    /\ IF result'.ok
       THEN /\ products' = result'.val
            /\ pc' = "summary"
            /\ UNCHANGED <<error, exitCode>>
       ELSE /\ Abort(result'.err)
            /\ UNCHANGED products
    /\ UNCHANGED <<pandas, openpyxl, tz, input, stdout, excelFile, jsonFile,
                   excelAttempts, provisionCount, firstAttempt>>

\* Lines 58-61: the count summary and the sample of the first record.
PrintSummary ==
    /\ pc = "summary"
    /\ stdout' = stdout
           \o <<[line |-> "Processed", n |-> Len(products)],
                [line |-> "Sample product data:"]>>
           \o (IF products # <<>>
               THEN <<[line |-> "Sample", text |-> DumpDict(products[1])]>>
               ELSE <<>>)
    /\ pc' = "excel"
    /\ UNCHANGED <<result, pandas, openpyxl, tz, input, products, excelFile, jsonFile,
                   excelAttempts, provisionCount, firstAttempt, error, exitCode>>

\* save_to_excel, lines 38-42: ImportError when openpyxl is missing, OSError
\* when the destination is unwritable, else the file and a line of output.
save_to_excel(writable) ==
    IF ~openpyxl
    THEN Raise("ImportError")
    ELSE IF ~writable THEN Raise("OSError") ELSE Ok(ToExcel(products))

\* Lines 67-69: the first attempt; ImportError is caught.
SaveExcel ==
    /\ pc = "excel"
    /\ excelAttempts' = excelAttempts + 1
    /\ \E writable \in BOOLEAN :
         LET r == save_to_excel(writable)
         IN IF r.ok
            THEN /\ excelFile' = r.val
                 /\ stdout' = Append(stdout, [line |-> "Excel file saved"])
                 /\ firstAttempt' = "ok"
                 /\ pc' = "json"
                 /\ UNCHANGED <<error, exitCode>>
            ELSE IF r.err = "ImportError"
                 THEN /\ firstAttempt' = "ImportError"
                      /\ pc' = "provision"
                      /\ UNCHANGED <<excelFile, stdout, error, exitCode>>
                 ELSE /\ firstAttempt' = r.err
                      /\ Abort(r.err)
                      /\ UNCHANGED <<excelFile, stdout>>
    /\ UNCHANGED <<result, pandas, openpyxl, tz, input, products, jsonFile,
                   provisionCount>>

\* Lines 70-73: the handler prints and runs pip install.
Provision ==
    /\ pc = "provision"
    /\ stdout' = Append(stdout, [line |-> "Installing required packages"])
    /\ provisionCount' = provisionCount + 1
    /\ \E outcome \in PipOutcomes :
         IF outcome = "failed"
         THEN Abort("CalledProcessError") /\ UNCHANGED openpyxl
         ELSE /\ openpyxl' = (outcome = "installed")
              /\ pc' = "retry"
              /\ UNCHANGED <<error, exitCode>>
    /\ UNCHANGED <<result, pandas, tz, input, products, excelFile, jsonFile,
                   excelAttempts, firstAttempt>>

\* Variant: the retry sits in a try whose handler passes.
RetryExcel_swallow ==
    /\ pc = "retry"
    /\ excelAttempts' = excelAttempts + 1
    /\ \E writable \in BOOLEAN :
         LET r == save_to_excel(writable)
         IN IF r.ok
            THEN /\ excelFile' = r.val
                 /\ stdout' = Append(stdout, [line |-> "Excel file saved"])
            ELSE UNCHANGED <<excelFile, stdout>>
    /\ pc' = "json"
    /\ UNCHANGED <<result, pandas, openpyxl, tz, input, products, jsonFile,
                   provisionCount, firstAttempt, error, exitCode>>

\* Line 74: the retry inside the handler; nothing is caught here.
RetryExcel ==
    /\ pc = "retry"
    /\ excelAttempts' = excelAttempts + 1
    /\ \E writable \in BOOLEAN :
         LET r == save_to_excel(writable)
         IN IF r.ok
            THEN /\ excelFile' = r.val
                 /\ stdout' = Append(stdout, [line |-> "Excel file saved"])
                 /\ pc' = "json"
                 /\ UNCHANGED <<error, exitCode>>
            ELSE /\ Abort(r.err)
                 /\ UNCHANGED <<excelFile, stdout>>
    /\ UNCHANGED <<result, pandas, openpyxl, tz, input, products, jsonFile,
                   provisionCount, firstAttempt>>

\* save_to_json, lines 44-48.
save_to_json(writable) ==
    IF ~writable THEN Raise("OSError") ELSE Ok(json_dump(products))

\* Variant: a failed write of the JSON file is swallowed.
SaveJson_swallow ==
    /\ pc = "json"
    /\ \E writable \in BOOLEAN :
         LET r == save_to_json(writable)
         IN IF r.ok
            THEN /\ jsonFile' = r.val
                 /\ stdout' = Append(stdout, [line |-> "JSON file saved"])
            ELSE UNCHANGED <<jsonFile, stdout>>
    /\ pc' = "total"
    /\ UNCHANGED <<result, pandas, openpyxl, tz, input, products, excelFile,
                   excelAttempts, provisionCount, firstAttempt, error, exitCode>>

\* Line 76.
SaveJson ==
    /\ pc = "json"
    /\ \E writable \in BOOLEAN :
         LET r == save_to_json(writable)
         IN IF r.ok
            THEN /\ jsonFile' = r.val
                 /\ stdout' = Append(stdout, [line |-> "JSON file saved"])
                 /\ pc' = "total"
                 /\ UNCHANGED <<error, exitCode>>
            ELSE /\ Abort(r.err)
                 /\ UNCHANGED <<jsonFile, stdout>>
    /\ UNCHANGED <<result, pandas, openpyxl, tz, input, products, excelFile,
                   excelAttempts, provisionCount, firstAttempt>>

\* Line 78, then the script ends normally.
PrintTotal ==
    /\ pc = "total"
    /\ stdout' = Append(stdout, [line |-> "Total", n |-> Len(products)])
    /\ pc' = "exited"
    /\ exitCode' = 0
    /\ UNCHANGED <<result, pandas, openpyxl, tz, input, products, excelFile, jsonFile,
                   excelAttempts, provisionCount, firstAttempt, error>>

Next ==
    \/ ImportModules
    \/ ProcessProducts
    \/ PrintSummary
    \/ SaveExcel
    \/ Provision
    \/ RetryExcel
    \/ SaveJson
    \/ PrintTotal

Spec == Init /\ [][Next]_vars

\* ------------------------------------------------------------------ claims
\* The list under `rows` of the input document (empty when there is none).
InputRows ==
    IF input.state = "valid" /\ input.doc.t = "obj" /\ input.doc.hasRows
       /\ input.doc.rows.t = "arr"
    THEN input.doc.rows.items
    ELSE <<>>

Empty == StrV(<<>>)

SevenFields ==
    <<K_productName, K_productKey, K_productId, K_productVendorId,
      K_categoryName, K_categoryValue, K_createdTime>>

\* The source key each of the first six fields is read from (spec section 3).
SourceKey == <<"productName", "productKey", "id", "vendorId", "categoryName", "itemValue">>

HasLine(l) == \E i \in 1..Len(stdout) : stdout[i].line = l

\* C1: when process_products returns, its result has as many records as the
\* input has rows, and the i-th record is the one derived from the i-th row:
\* nothing dropped, duplicated, merged or reordered.
C1_LengthAndOrder ==
    result.ok =>
        /\ Len(products) = Len(InputRows)
        /\ \A i \in 1..Len(InputRows) :
             LET row == InputRows[i]
                 ts == IF "tsCreateTime" \in DOMAIN row
                       THEN row.tsCreateTime ELSE Null
             IN /\ i <= Len(products)
                /\ products[i] = ProcessedProduct(row, format_timestamp(ts, tz).val)

\* Two rows that give different records were processed, in order.
C1_Witness ==
    /\ result.ok
    /\ Len(InputRows) = 2
    /\ Len(products) = 2
    /\ products[1] # products[2]
    /\ InputRows[1] = R_TsZero
    /\ InputRows[2] = R_Widget

TimestampAccepted(row) ==
    \/ "tsCreateTime" \notin DOMAIN row
    \/ row.tsCreateTime \in {Null, IntV(0, 0), Empty, BoolV(FALSE), EmptyArr}
    \/ row.tsCreateTime.t \in {"int", "bool"}

Accepted(doc) ==
    /\ doc.t = "obj"
    /\ doc.hasRows => doc.rows.t = "arr"
    /\ doc.hasRows =>
         \A i \in 1..Len(doc.rows.items) : TimestampAccepted(doc.rows.items[i])

C3_FieldProjection ==
    result.ok =>
        \A i \in 1..Len(products) :
            /\ Len(products[i]) = 7
            /\ \A j \in 1..7 : products[i][j][1] = SevenFields[j]
            /\ i <= Len(InputRows)
            /\ \A j \in 1..6 :
                 products[i][j][2] =
                     IF SourceKey[j] \in DOMAIN InputRows[i]
                     THEN InputRows[i][SourceKey[j]]
                     ELSE Empty
            /\ (DOMAIN InputRows[i] = {}) =>
                 \A j \in 1..7 : products[i][j][2] = Empty

\* A row with every key and a row with none were projected.
C3_Witness ==
    /\ result.ok
    /\ Len(products) = 2
    /\ InputRows[1] = R_Full
    /\ InputRows[2] = R_None
    /\ products[1][3][2] = IntV(1, 234)
    /\ products[2][3][2] = Empty

C5_ProvisionsWhenUnavailable ==
    /\ provisionCount <= 1
    /\ excelAttempts <= 2
    /\ provisionCount = 1 => firstAttempt = "ImportError"
    /\ (/\ pc = "exited"
        /\ input.state = "valid"
        /\ Accepted(input.doc)
        /\ ~pandas \/ firstAttempt = "ImportError") => provisionCount = 1

\* C6: in every state of an execution whose input is missing or is not
\* valid JSON, no artifact exists, nothing was provisioned, no tabular write
\* was attempted and nothing was printed; and such a run ends non-zero.
C6_AbortBeforeOutput ==
    input.state # "valid" =>
        /\ excelFile = Absent
        /\ jsonFile = Absent
        /\ provisionCount = 0
        /\ excelAttempts = 0
        /\ stdout = <<>>
        /\ pc = "exited" => exitCode = 1

\* The read or the parse failed and the run ended.
C6_Witness ==
    /\ pc = "exited"
    /\ input.state \in {"missing", "invalid"}
    /\ result.ok = FALSE
    /\ result.err \in {"FileNotFoundError", "JSONDecodeError"}
    /\ error = result.err

\* C7 as stated: a run whose input was read and parsed successfully (and
\* here also normalized) ends with exit status zero.
C7_ZeroUnlessReadFails ==
    (pc = "exited" /\ input.state = "valid" /\ result.ok) => exitCode = 0

\* C7 amended: a run ends with exit status zero exactly when no exception
\* propagated, which is exactly when both artifacts were written and the
\* total line printed; every other run ends non-zero, whether the read or
\* parse failed or a later step did.
C7_ZeroIffCompleted ==
    pc = "exited" =>
        /\ exitCode \in {0, 1}
        /\ exitCode = 0 <=> error = "none"
        /\ exitCode = 0 <=> (excelFile # Absent /\ jsonFile # Absent)
        /\ exitCode = 0 <=> HasLine("Total")

\* A run that parsed its input and still ended non-zero, on a failed write.
C7_Witness ==
    /\ pc = "exited"
    /\ result.ok
    /\ exitCode = 1
    /\ error = "OSError"
    /\ excelFile # Absent
    /\ jsonFile = Absent

\* C8 as stated: whenever the tabular artifact is written, its header row
\* names the seven fields, however many records there are.
C8_HeaderAlwaysSeven ==
    excelFile # Absent =>
        /\ excelFile.header = SevenFields
        /\ Len(excelFile.rows) = Len(products)

\* C8 amended: empty input gives the empty sequence, and the tabular
\* artifact is still written, with one data row per record; its header
\* names the seven fields when there is at least one record and is empty
\* (no columns at all) when there is none.
C8_HeaderUnlessEmpty ==
    /\ (result.ok /\ InputRows = <<>>) => products = <<>>
    /\ excelFile # Absent =>
         /\ Len(excelFile.rows) = Len(products)
         /\ \A i \in 1..Len(excelFile.rows) :
              Len(excelFile.rows[i]) = Len(excelFile.header)
         /\ products # <<>> => excelFile.header = SevenFields
         /\ products = <<>> => excelFile.header = <<>>

\* The tabular artifact was written for a document without a `rows` key.
C8_Witness ==
    /\ input.state = "valid"
    /\ input.doc.t = "obj"
    /\ ~input.doc.hasRows
    /\ products = <<>>
    /\ excelFile = [header |-> <<>>, rows |-> <<>>]

C10_JsonOnlyAfterExcel ==
    /\ jsonFile # Absent => excelFile # Absent
    /\ HasLine("JSON file saved") => HasLine("Excel file saved")
    /\ HasLine("Total") => (excelFile # Absent /\ jsonFile # Absent)
    /\ pc \in {"json", "total"} => excelFile # Absent
    /\ (pc = "exited" /\ excelAttempts >= 1 /\ excelFile = Absent) =>
         /\ jsonFile = Absent
         /\ ~HasLine("Total")
         /\ exitCode = 1

\* The retry after provisioning failed and the run ended without artifacts.
C10_Witness ==
    /\ pc = "exited"
    /\ excelAttempts = 2
    /\ provisionCount = 1
    /\ excelFile = Absent
    /\ jsonFile = Absent
    /\ exitCode = 1

====
